---- MODULE Spec2Model ----
(***************************************************************************)
(* Model of db/internal_stats.cc: the property catalog (GetPropertyType),  *)
(* the three query paths (GetIntPropertyOutOfMutex, GetStringProperty,     *)
(* GetIntProperty) and the two string reports with their interval          *)
(* snapshots (DumpDBStats, DumpCFStats, PrintLevelStats), as built without *)
(* ROCKSDB_LITE.                                                           *)
(*                                                                         *)
(* Conventions.                                                            *)
(*  - A property name is a TLA+ string, used as the sequence of its        *)
(*    characters (Len, SubSeq, \o), as Slice is in the source.             *)
(*  - The counters kept by the engine are small naturals.  A uint64_t      *)
(*    value computed by a report is a tuple of four 16-bit limbs (least    *)
(*    significant first), so that unsigned subtraction and addition wrap   *)
(*    modulo 2^64 exactly as in the source.                                *)
(*  - A double is kept exact: an integer where the source adds or          *)
(*    subtracts doubles, and a record [num, div] where it divides.         *)
(***************************************************************************)
EXTENDS Integers, Sequences, FiniteSets, TLC

(***************************************************************************)
(* Bounds of the model.                                                    *)
(***************************************************************************)
MaxLevels == 3
MaxFiles == 2
MaxEnvSteps == 3
MaxReports == 2

(***************************************************************************)
(* uint64_t as four 16-bit limbs.                                          *)
(***************************************************************************)
Base == 2^16
Half == 2^15

U64Zero == <<0, 0, 0, 0>>

\* the uint64_t holding the natural n, n < 2^31
U64(n) == <<n % Base, n \div Base, 0, 0>>

\* a + b modulo 2^64
U64Add(a, b) ==
  LET s1 == a[1] + b[1]
      s2 == a[2] + b[2] + (s1 \div Base)
      s3 == a[3] + b[3] + (s2 \div Base)
      s4 == a[4] + b[4] + (s3 \div Base)
  IN  <<s1 % Base, s2 % Base, s3 % Base, s4 % Base>>

\* a - b modulo 2^64
U64Sub(a, b) ==
  LET d1 == a[1] - b[1]
      w1 == IF d1 < 0 THEN 1 ELSE 0
      d2 == a[2] - b[2] - w1
      w2 == IF d2 < 0 THEN 1 ELSE 0
      d3 == a[3] - b[3] - w2
      w3 == IF d3 < 0 THEN 1 ELSE 0
      d4 == a[4] - b[4] - w3
      w4 == IF d4 < 0 THEN 1 ELSE 0
  IN  <<d1 + w1 * Base, d2 + w2 * Base, d3 + w3 * Base, d4 + w4 * Base>>

\* whether the uint64_t is below 2^31, where it is the natural U64Nat gives
U64Small(u) == u[3] = 0 /\ u[4] = 0 /\ u[2] < Half

U64Nat(u) == u[1] + Base * u[2]

\* static_cast<int>(uint64_t): the low 32 bits, read as two's complement
ToInt32(u) ==
  IF u[2] >= Half THEN (u[2] - Base) * Base + u[1] ELSE u[2] * Base + u[1]

(***************************************************************************)
(* Slice.                                                                  *)
(***************************************************************************)
starts_with(s, x) == Len(s) >= Len(x) /\ SubSeq(s, 1, Len(x)) = x

remove_prefix(s, n) == SubSeq(s, n + 1, Len(s))

Digits == "0123456789"

IsDigit(c) == \E i \in 1..10 : SubSeq(Digits, i, i) = c

DigitVal(c) == (CHOOSE i \in 1..10 : SubSeq(Digits, i, i) = c) - 1

\* v * 10 + delta on the limbs: [val, overflow], overflow when the result
\* does not fit 64 bits
MulTenAdd(v, delta) ==
  LET p1 == v[1] * 10 + delta
      p2 == v[2] * 10 + (p1 \div Base)
      p3 == v[3] * 10 + (p2 \div Base)
      p4 == v[4] * 10 + (p3 \div Base)
  IN  [val |-> <<p1 % Base, p2 % Base, p3 % Base, p4 % Base>>,
       overflow |-> p4 \div Base > 0]

\* the loop of ConsumeDecimalNumber from position i of `in` with value v
\* and `digits` digits read so far
RECURSIVE ConsumeLoop(_, _, _, _)
ConsumeLoop(in, i, v, digits) ==
  IF i > Len(in) \/ ~IsDigit(SubSeq(in, i, i))
  THEN [ok |-> digits > 0, val |-> v, rest |-> SubSeq(in, i, Len(in))]
  ELSE LET m == MulTenAdd(v, DigitVal(SubSeq(in, i, i)))
       IN  IF m.overflow
           THEN [ok |-> FALSE, val |-> v, rest |-> SubSeq(in, i, Len(in))]
           ELSE ConsumeLoop(in, i + 1, m.val, digits + 1)

\* ConsumeDecimalNumber(&in, &val): reads the leading decimal digits
ConsumeDecimalNumber(in) == ConsumeLoop(in, 1, U64Zero, 0)

(***************************************************************************)
(* The property catalog.                                                   *)
(***************************************************************************)
StringKinds ==
  {"kNumFilesAtLevel", "kLevelStats", "kStats", "kCFStats", "kDBStats",
   "kSsTables"}

\* suffix -> kind of the integer properties, in the order of the source
IntNames ==
  << <<"num-immutable-mem-table", "kNumImmutableMemTable">>,
     <<"mem-table-flush-pending", "kMemtableFlushPending">>,
     <<"compaction-pending", "kCompactionPending">>,
     <<"background-errors", "kBackgroundErrors">>,
     <<"cur-size-active-mem-table", "kCurSizeActiveMemTable">>,
     <<"cur-size-all-mem-tables", "kCurSizeAllMemTables">>,
     <<"num-entries-active-mem-table", "kNumEntriesInMutableMemtable">>,
     <<"num-entries-imm-mem-tables", "kNumEntriesInImmutableMemtable">>,
     <<"estimate-num-keys", "kEstimatedNumKeys">>,
     <<"estimate-table-readers-mem", "kEstimatedUsageByTableReaders">>,
     <<"is-file-deletions-enabled", "kIsFileDeletionEnabled">>,
     <<"num-snapshots", "kNumSnapshots">>,
     <<"oldest-snapshot-time", "kOldestSnapshotTime">>,
     <<"num-live-versions", "kNumLiveVersions">> >>

IntKinds == {IntNames[i][2] : i \in 1..Len(IntNames)}

Kinds == StringKinds \cup IntKinds \cup {"kUnknown"}

Prefix == "rocksdb."

PropertyResult(kind, is_int, out_of_mutex) ==
  [kind |-> kind, is_int_property |-> is_int, need_out_of_mutex |-> out_of_mutex]

GetPropertyType(property) ==
  IF ~starts_with(property, Prefix)
  THEN PropertyResult("kUnknown", FALSE, FALSE)
  ELSE
    LET in == remove_prefix(property, Len(Prefix)) IN
    IF starts_with(in, "num-files-at-level")
    THEN PropertyResult("kNumFilesAtLevel", FALSE, FALSE)
    ELSE IF in = "levelstats" THEN PropertyResult("kLevelStats", FALSE, FALSE)
    ELSE IF in = "stats" THEN PropertyResult("kStats", FALSE, FALSE)
    ELSE IF in = "cfstats" THEN PropertyResult("kCFStats", FALSE, FALSE)
    ELSE IF in = "dbstats" THEN PropertyResult("kDBStats", FALSE, FALSE)
    ELSE IF in = "sstables" THEN PropertyResult("kSsTables", FALSE, FALSE)
    ELSE
      \* from here on *is_int_property is true, also on the final return
      IF \E i \in 1..Len(IntNames) : IntNames[i][1] = in
      THEN LET i == CHOOSE j \in 1..Len(IntNames) : IntNames[j][1] = in
           IN  PropertyResult(IntNames[i][2], TRUE,
                              IntNames[i][2] = "kEstimatedUsageByTableReaders")
      ELSE PropertyResult("kUnknown", TRUE, FALSE)

(***************************************************************************)
(* State.                                                                  *)
(***************************************************************************)
VARIABLES
  number_levels_,      \* configured number of levels (also vstorage->num_levels())
  compaction_style,    \* cfd_->ioptions()->compaction_style
  files,               \* vstorage->LevelFiles(level): the files of each level
  comp_stats_,         \* per-level CompactionStats
  cf_stats_value_,     \* per-cause stall micros, and the flushed bytes
  cf_stats_count_,     \* per-cause stall counts
  stall_leveln_,       \* per level: slowdown micros and counts, soft and hard
  db_stats_,           \* the DB-wide counters
  now,                 \* env_->NowMicros()
  started_at_,         \* NowMicros() at construction
  cf_stats_snapshot_,  \* what the last cfstats report saw
  db_stats_snapshot_,  \* what the last dbstats report saw
  out,                 \* the last call with its arguments and results
  hist,                \* history: the counters as they were at the last reports
  steps                \* number of engine steps and of reports taken so far

vars ==
  <<number_levels_, compaction_style, files, comp_stats_, cf_stats_value_,
    cf_stats_count_, stall_leveln_, db_stats_, now, started_at_,
    cf_stats_snapshot_, db_stats_snapshot_, out, hist, steps>>

config == <<number_levels_, compaction_style, started_at_>>
cf_counters ==
  <<files, comp_stats_, cf_stats_value_, cf_stats_count_, stall_leveln_>>
snapshots == <<cf_stats_snapshot_, db_stats_snapshot_>>

Levels == 0..(number_levels_ - 1)

CompactionStyles ==
  {"kCompactionStyleLevel", "kCompactionStyleUniversal", "kCompactionStyleFIFO"}

CFStatsTypes ==
  {"LEVEL0_SLOWDOWN", "LEVEL0_NUM_FILES", "MEMTABLE_COMPACTION", "BYTES_FLUSHED"}

DBStatsTypes ==
  {"WAL_FILE_BYTES", "WAL_FILE_SYNCED", "BYTES_WRITTEN", "NUMBER_KEYS_WRITTEN",
   "WRITE_DONE_BY_OTHER", "WRITE_DONE_BY_SELF", "WRITE_WITH_WAL",
   "WRITE_STALL_MICROS"}

(***************************************************************************)
(* CompactionStats.                                                        *)
(***************************************************************************)
StatsFields ==
  {"micros", "bytes_readn", "bytes_readnp1", "bytes_written", "bytes_moved",
   "num_input_records", "num_dropped_records", "count"}

\* CompactionStats(0)
StatsZero == [f \in StatsFields |-> 0]

\* CompactionStats::Add: elementwise sum
Add(a, b) == [f \in StatsFields |-> a[f] + b[f]]

\* CompactionStats::Subtract: elementwise difference, clamped at zero
Subtract(a, b) == [f \in StatsFields |-> IF a[f] >= b[f] THEN a[f] - b[f] ELSE 0]

(***************************************************************************)
(* The version's storage info.                                             *)
(***************************************************************************)
RECURSIVE SumSizes(_)
SumSizes(fs) == IF fs = <<>> THEN 0 ELSE Head(fs).file_size + SumSizes(Tail(fs))

NumLevelFiles(level) == Len(files[level])

NumLevelBytes(level) == SumSizes(files[level])

\* the compaction score of a level, as the picker computed it
LevelScore(level) ==
  IF level = number_levels_ - 1 THEN 0 ELSE NumLevelFiles(level)

\* the position of a level in the list sorted by decreasing score
ScoreRank(level) ==
  Cardinality({l \in Levels :
     \/ LevelScore(l) > LevelScore(level)
     \/ LevelScore(l) = LevelScore(level) /\ l < level})

\* vstorage->CompactionScoreLevel(i), vstorage->CompactionScore(i)
CompactionScoreLevel(i) == CHOOSE l \in Levels : ScoreRank(l) = i

CompactionScore(i) == LevelScore(CompactionScoreLevel(i))

(***************************************************************************)
(* Figures of a report.  A figure keeps the value handed to the format     *)
(* string, the constant it is divided by and the unit its label names.     *)
(***************************************************************************)
kMB == 1048576
kGB == kMB * 1024
kMicrosInSec == 1000000

\* an argument of a "%.<dec>f" conversion: val / div, under a label in `unit`
Fig(val, div, unit, dec) == [val |-> val, div |-> div, unit |-> unit, dec |-> dec]

\* a quotient of two values, as a double
Ratio(num, den) == [num |-> num, den |-> den]

(***************************************************************************)
(* What snprintf prints for a figure.                                      *)
(***************************************************************************)
RECURSIVE Pow10(_)
Pow10(dec) == IF dec = 0 THEN 1 ELSE 10 * Pow10(dec - 1)

\* the text of a "%.<dec>f" conversion: the sign, the integer part (a
\* uint64_t) and the dec digits after the point
Printed(neg, int, frac, dec) ==
  [neg |-> neg, int |-> int, frac |-> frac, dec |-> dec]

RECURSIVE BitLength(_)
BitLength(n) == IF n = 0 THEN 0 ELSE 1 + BitLength(n \div 2)

\* the uint64_t as a double: itself below 2^53, and rounded to 53
\* significant bits, ties to even, from there on.  Five limbs, as 2^64 is a
\* result.
ToDouble(u) ==
  IF u[4] < 32 THEN u \o <<0>>
  ELSE LET s == 2^(BitLength(u[4]) - 5)
           rem == u[1] % s
           down == <<u[1] - rem, u[2], u[3], u[4]>>
           up == U64Add(down, U64(s))
           odd == ((u[1] - rem) \div s) % 2 = 1
       IN  IF ~(2 * rem > s \/ (2 * rem = s /\ odd)) THEN down \o <<0>>
           ELSE IF up = U64Zero THEN <<0, 0, 0, 0, 1>>
           ELSE up \o <<0>>

\* value / div as "%.<dec>f" prints it, value a uint64_t and div kMB or kGB:
\* the quotient by a power of two is exact, and printf rounds it to dec
\* digits, ties to even
PrintedBytes(value, div, dec) ==
  LET d == ToDouble(value) \o <<0>>
      b == IF div = kMB THEN 4 ELSE 14
      q == <<(d[2] \div 2^b) + (d[3] % 2^b) * 2^(16 - b),
             (d[3] \div 2^b) + (d[4] % 2^b) * 2^(16 - b),
             (d[4] \div 2^b) + (d[5] % 2^b) * 2^(16 - b),
             (d[5] \div 2^b) + (d[6] % 2^b) * 2^(16 - b)>>
      r == d[1] + (d[2] % 2^b) * Base
      p == Pow10(dec)
      \* r * p / div, with r * p kept as a * 2^15 + low
      a == (r \div Half) * p + ((r % Half) * p) \div Half
      low == ((r % Half) * p) % Half
      unit == div \div Half
      f == a \div unit
      top == a % unit
      above == top > unit \div 2 \/ (top = unit \div 2 /\ low > 0)
      tie == top = unit \div 2 /\ low = 0
      odd == IF dec = 0 THEN q[1] % 2 = 1 ELSE f % 2 = 1
      frac == IF above \/ (tie /\ odd) THEN f + 1 ELSE f
  IN  IF frac = p THEN Printed(FALSE, U64Add(q, U64(1)), 0, dec)
      ELSE Printed(FALSE, q, frac, dec)

\* The double nearest to n / d against n / d itself: 1 when it is above, -1
\* when it is below, 0 when n / d is a double.  The bits of the quotient are
\* produced one by one, r the remainder, sig the number of significant bits
\* so far and last the latest bit; the 53rd is rounded, ties to even.
RECURSIVE QuotientBits(_, _, _, _)
QuotientBits(r, d, sig, last) ==
  IF r = 0 THEN 0
  ELSE LET bit == (2 * r) \div d
           rest == (2 * r) % d
       IN  IF sig < 53
           THEN QuotientBits(rest, d, IF sig > 0 \/ bit = 1 THEN sig + 1 ELSE 0, bit)
           ELSE IF bit = 0 THEN -1
           ELSE IF rest > 0 \/ last = 1 THEN 1
           ELSE -1

QuotientError(n, d) ==
  QuotientBits(n % d, d, BitLength(n \div d), (n \div d) % 2)

\* value / 1000000.0 as "%.<dec>f" prints it, value a number of microseconds
\* held in a double: the quotient is the nearest double, and printf rounds
\* that double to dec digits, ties to even
PrintedMicros(value, dec) ==
  LET n == IF value < 0 THEN -value ELSE value
      p == Pow10(dec)
      unit == kMicrosInSec \div p
      q == n \div unit
      r == n % unit
      err == QuotientError(n, kMicrosInSec)
      up == \/ 2 * r > unit
            \/ 2 * r = unit /\ (err > 0 \/ (err = 0 /\ q % 2 = 1))
      shown == IF up THEN q + 1 ELSE q
  IN  Printed(value < 0, U64(shown \div p), shown % p, dec)

(***************************************************************************)
(* Doubles kept and subtracted (the uptime of DumpDBStats).  A natural     *)
(* number of any size is the sequence of its digits in base 1024, the      *)
(* lowest first; a double is a sign and m * 2^(-e), m such a number of at  *)
(* most 53 binary digits.                                                  *)
(***************************************************************************)
RECURSIVE BigOf(_)
BigOf(n) == IF n = 0 THEN <<>> ELSE <<n % 1024>> \o BigOf(n \div 1024)

RECURSIVE BigNat(_)
BigNat(a) == IF a = <<>> THEN 0 ELSE Head(a) + 1024 * BigNat(Tail(a))

LimbAt(a, i) == IF i >= 1 /\ i <= Len(a) THEN a[i] ELSE 0

RECURSIVE BigAddFrom(_, _, _, _)
BigAddFrom(a, b, i, carry) ==
  IF i > Len(a) /\ i > Len(b) THEN (IF carry = 0 THEN <<>> ELSE <<carry>>)
  ELSE LET sum == LimbAt(a, i) + LimbAt(b, i) + carry
       IN  <<sum % 1024>> \o BigAddFrom(a, b, i + 1, sum \div 1024)

BigAdd(a, b) == BigAddFrom(a, b, 1, 0)

\* a - b, for a >= b
RECURSIVE BigSubFrom(_, _, _, _)
BigSubFrom(a, b, i, borrow) ==
  IF i > Len(a) THEN <<>>
  ELSE LET diff == LimbAt(a, i) - LimbAt(b, i) - borrow
       IN  <<(diff + 1024) % 1024>>
           \o BigSubFrom(a, b, i + 1, IF diff < 0 THEN 1 ELSE 0)

BigSub(a, b) == BigSubFrom(a, b, 1, 0)

RECURSIVE BigLessFrom(_, _, _)
BigLessFrom(a, b, i) ==
  IF i = 0 THEN FALSE
  ELSE IF LimbAt(a, i) # LimbAt(b, i) THEN LimbAt(a, i) < LimbAt(b, i)
  ELSE BigLessFrom(a, b, i - 1)

BigLess(a, b) == BigLessFrom(a, b, IF Len(a) >= Len(b) THEN Len(a) ELSE Len(b))

\* a * k, for k up to 2^20
RECURSIVE BigTimesFrom(_, _, _, _)
BigTimesFrom(a, k, i, carry) ==
  IF i > Len(a) THEN BigOf(carry)
  ELSE LET prod == a[i] * k + carry
       IN  <<prod % 1024>> \o BigTimesFrom(a, k, i + 1, prod \div 1024)

BigTimes(a, k) == BigTimesFrom(a, k, 1, 0)

\* the quotient and the remainder of a by d, for d up to 2^20: the digits
\* from the highest down, r the remainder so far
RECURSIVE BigDivFrom(_, _, _, _)
BigDivFrom(a, d, i, r) ==
  IF i = 0 THEN [quot |-> <<>>, rem |-> r]
  ELSE LET cur == r * 1024 + a[i]
           low == BigDivFrom(a, d, i - 1, cur % d)
       IN  [quot |-> Append(low.quot, cur \div d), rem |-> low.rem]

BigDivMod(a, d) == BigDivFrom(a, d, Len(a), 0)

\* the number of binary digits of a
RECURSIVE BigBits(_)
BigBits(a) ==
  IF a = <<>> THEN 0
  ELSE IF a[Len(a)] # 0 THEN 10 * (Len(a) - 1) + BitLength(a[Len(a)])
  ELSE BigBits(SubSeq(a, 1, Len(a) - 1))

\* the k-th binary digit of a, the lowest being the first
BigBit(a, k) ==
  IF k < 1 THEN 0
  ELSE (LimbAt(a, (k - 1) \div 10 + 1) \div 2^((k - 1) % 10)) % 2

\* one of the k lowest binary digits of a is 1
BigLowBits(a, k) ==
  /\ k >= 1
  /\ \/ \E i \in 1..(k \div 10) : LimbAt(a, i) # 0
     \/ LimbAt(a, k \div 10 + 1) % 2^(k % 10) # 0

BigShiftLeft(a, k) == [i \in 1..(k \div 10) |-> 0] \o BigTimes(a, 2^(k % 10))

BigShiftRight(a, k) ==
  IF k <= 0 THEN a
  ELSE BigDivMod(SubSeq(a, k \div 10 + 1, Len(a)), 2^(k % 10)).quot

Double(neg, m, e) == [neg |-> neg, m |-> m, e |-> e]

\* m * 2^(-e) rounded to 53 binary digits, ties to even
RoundToDouble(neg, m, e) ==
  LET drop == BigBits(m) - 53
      kept == BigShiftRight(m, drop)
      up == /\ BigBit(m, drop) = 1
            /\ BigLowBits(m, drop - 1) \/ BigBit(m, drop + 1) = 1
  IN  IF drop <= 0 THEN Double(neg, m, e)
      ELSE Double(neg, IF up THEN BigAdd(kept, <<1>>) ELSE kept, e - drop)

\* how many times n is doubled to reach d
RECURSIVE Doublings(_, _)
Doublings(n, d) == IF n >= d THEN 0 ELSE 1 + Doublings(2 * n, d)

\* micros / 1000000.0, micros a count of microseconds below 2^31: the
\* quotient to 53 binary digits, rounded to the nearest, ties to even
DoubleMicros(micros) ==
  IF micros = 0 THEN Double(FALSE, <<>>, 0)
  ELSE LET e == IF micros >= kMicrosInSec
                THEN 53 - BitLength(micros \div kMicrosInSec)
                ELSE 52 + Doublings(micros, kMicrosInSec)
           q == BigDivMod(BigShiftLeft(BigOf(micros), e), kMicrosInSec)
           up == \/ 2 * q.rem > kMicrosInSec
                 \/ 2 * q.rem = kMicrosInSec /\ BigBit(q.quot, 1) = 1
       IN  RoundToDouble(FALSE, IF up THEN BigAdd(q.quot, <<1>>) ELSE q.quot, e)

\* x - y in double arithmetic, x and y not negative
DoubleSub(x, y) ==
  LET e == IF x.e >= y.e THEN x.e ELSE y.e
      a == BigShiftLeft(x.m, e - x.e)
      b == BigShiftLeft(y.m, e - y.e)
  IN  IF BigLess(a, b) THEN RoundToDouble(TRUE, BigSub(b, a), e)
      ELSE RoundToDouble(FALSE, BigSub(a, b), e)

\* the double as "%.<dec>f" prints it: its exact value rounded to dec
\* digits, ties to even
PrintedDouble(x, dec) ==
  LET p == Pow10(dec)
      n == BigTimes(x.m, p)
      int == BigShiftRight(n, x.e)
      up == /\ BigBit(n, x.e) = 1
            /\ BigLowBits(n, x.e - 1) \/ BigBit(n, x.e + 1) = 1
      shown == BigNat(int) + (IF up THEN 1 ELSE 0)
  IN  Printed(x.neg, U64(shown \div p), shown % p, dec)

\* a double of the report with its unit and the digits it is shown with
FigDouble(double, unit, dec) == [double |-> double, unit |-> unit, dec |-> dec]

\* what the report shows for a figure of bytes, and for one of seconds
ShownBytes(fig) == PrintedBytes(fig.val, fig.div, fig.dec)

ShownSecs(fig) ==
  IF "double" \in DOMAIN fig THEN PrintedDouble(fig.double, fig.dec)
  ELSE PrintedMicros(fig.val, fig.dec)

\* as LevelWAmp, but with the denominator max(bytes_readn, 1)
LevelWAmpMaxDenominator(stats) ==
  Ratio(stats.bytes_written,
        U64(IF stats.bytes_readn = 0 THEN 1 ELSE stats.bytes_readn))

\* the write amplification of a level row
LevelWAmp(stats) ==
  IF stats.bytes_readn = 0
  THEN Ratio(0, U64(1))
  ELSE Ratio(stats.bytes_written, U64(stats.bytes_readn))

\* the write amplification of the Sum and Int rows
AggregateWAmp(bytes_written, ingest_plus_one) ==
  Ratio(bytes_written, ingest_plus_one)

PrintLevelStats(name, num_files, being_compacted, total_file_size, score, w_amp, stall_us, stalls, stats) ==
  LET bytes_read == U64Add(U64(stats.bytes_readn), U64(stats.bytes_readnp1))
      bytes_new == U64Sub(U64(stats.bytes_written), U64(stats.bytes_readnp1))
      elapsed == stats.micros + 1
  IN  [name |-> name,
       files |-> num_files,
       being_compacted |-> being_compacted,
       size |-> Fig(U64(total_file_size), kMB, "MB", 0),
       score |-> score,
       read |-> Fig(bytes_read, kGB, "GB", 1),
       rn |-> Fig(U64(stats.bytes_readn), kGB, "GB", 1),
       rnp1 |-> Fig(U64(stats.bytes_readnp1), kGB, "GB", 1),
       write |-> Fig(U64(stats.bytes_written), kGB, "GB", 1),
       wnew |-> Fig(bytes_new, kGB, "GB", 1),
       moved |-> Fig(U64(stats.bytes_moved), kGB, "GB", 1),
       w_amp |-> w_amp,
       rd |-> [val |-> bytes_read, div |-> kMB, unit |-> "MB",
               elapsed |-> Ratio(elapsed, kMicrosInSec), dec |-> 1],
       wr |-> [val |-> U64(stats.bytes_written), div |-> kMB, unit |-> "MB",
               elapsed |-> Ratio(elapsed, kMicrosInSec), dec |-> 1],
       comp_sec |-> Fig(stats.micros, kMicrosInSec, "sec", 0),
       comp_cnt |-> stats.count,
       avg_sec |-> IF stats.count = 0 THEN Ratio(0, 1)
                   ELSE Ratio(Ratio(stats.micros, kMicrosInSec), stats.count),
       stall_sec |-> Fig(stall_us, kMicrosInSec, "sec", 2),
       stall_cnt |-> stalls,
       avg_ms |-> IF stalls = U64Zero THEN Ratio(0, 1)
                  ELSE Ratio(Ratio(stall_us, 1000), stalls),
       record_in |-> U64(stats.num_input_records),
       record_drop |-> U64(stats.num_dropped_records)]

(***************************************************************************)
(* DumpCFStats.                                                            *)
(***************************************************************************)
NumLevelsToCheck ==
  IF /\ compaction_style # "kCompactionStyleUniversal"
     /\ compaction_style # "kCompactionStyleFIFO"
  THEN number_levels_ - 1
  ELSE 1

\* compaction_score[level] after the scores are restored to level order
RestoredScore(level) ==
  IF \E i \in 0..(NumLevelsToCheck - 1) : CompactionScoreLevel(i) = level
  THEN CompactionScore(CHOOSE i \in 0..(NumLevelsToCheck - 1) :
                          CompactionScoreLevel(i) = level)
  ELSE 0

NumBeingCompacted(level) ==
  Cardinality({i \in 1..Len(files[level]) : files[level][i].being_compacted})

\* files_being_compacted[level] after the counting loop
FilesBeingCompacted(level) ==
  IF level < NumLevelsToCheck THEN NumBeingCompacted(level) ELSE 0

\* whether the level gets a row, and is added to the totals
HasRow(level) == comp_stats_[level].micros > 0 \/ NumLevelFiles(level) > 0

LevelStalls(level) ==
  IF level = 0
  THEN cf_stats_count_["LEVEL0_SLOWDOWN"] + cf_stats_count_["LEVEL0_NUM_FILES"]
       + cf_stats_count_["MEMTABLE_COMPACTION"]
  ELSE stall_leveln_[level].slowdown_count_soft
       + stall_leveln_[level].slowdown_count_hard

LevelStallUs(level) ==
  IF level = 0
  THEN cf_stats_value_["LEVEL0_SLOWDOWN"] + cf_stats_value_["LEVEL0_NUM_FILES"]
       + cf_stats_value_["MEMTABLE_COMPACTION"]
  ELSE stall_leveln_[level].slowdown_soft + stall_leveln_[level].slowdown_hard

LevelName(level) == "L" \o SubSeq(Digits, level + 1, level + 1)

TotalsZero ==
  [stats_sum |-> StatsZero, total_files |-> 0, total_files_being_compacted |-> 0,
   total_file_size |-> 0, total_slowdown_soft |-> U64Zero,
   total_slowdown_count_soft |-> U64Zero, total_slowdown_hard |-> U64Zero,
   total_slowdown_count_hard |-> U64Zero, total_stall_count |-> U64Zero,
   total_stall_us |-> 0, rows |-> <<>>]

\* one pass of the loop over the levels
LevelStep(t, level) ==
  LET counted ==
        [t EXCEPT !.total_files = @ + NumLevelFiles(level),
                  !.total_files_being_compacted = @ + FilesBeingCompacted(level)]
  IN  IF ~HasRow(level) THEN counted
      ELSE [counted EXCEPT
        !.stats_sum = Add(@, comp_stats_[level]),
        !.total_file_size = @ + NumLevelBytes(level),
        !.total_stall_us = @ + LevelStallUs(level),
        !.total_stall_count = U64Add(@, U64(LevelStalls(level))),
        !.total_slowdown_soft = U64Add(@, U64(stall_leveln_[level].slowdown_soft)),
        !.total_slowdown_count_soft =
            U64Add(@, U64(stall_leveln_[level].slowdown_count_soft)),
        !.total_slowdown_hard = U64Add(@, U64(stall_leveln_[level].slowdown_hard)),
        !.total_slowdown_count_hard =
            U64Add(@, U64(stall_leveln_[level].slowdown_count_hard)),
        !.rows = Append(@,
            PrintLevelStats(LevelName(level), NumLevelFiles(level),
                            FilesBeingCompacted(level), NumLevelBytes(level),
                            RestoredScore(level), LevelWAmp(comp_stats_[level]),
                            LevelStallUs(level), U64(LevelStalls(level)),
                            comp_stats_[level]))]

RECURSIVE LevelLoop(_, _)
LevelLoop(t, level) ==
  IF level >= number_levels_ THEN t ELSE LevelLoop(LevelStep(t, level), level + 1)

\* the interval flush bytes: curr_ingest - cf_stats_snapshot_.ingest_bytes + 1
IntervalIngest(curr_ingest, snapshot_ingest) ==
  U64Add(U64Sub(curr_ingest, snapshot_ingest), U64(1))

\* the interval stall count of the Int row
IntervalStallCount(total_stall_count, snapshot_stall_count) ==
  U64Sub(total_stall_count, snapshot_stall_count)

\* the interval stall time of the Int row, a difference of doubles
IntervalStallUs(total_stall_us, snapshot_stall_us) ==
  total_stall_us - snapshot_stall_us

\* what DumpCFStats stores in cf_stats_snapshot_
NewCFSnapshot(curr_ingest, t) ==
  [ingest_bytes |-> curr_ingest, comp_stats |-> t.stats_sum,
   stall_us |-> t.total_stall_us, stall_count |-> t.total_stall_count]

\* DumpCFStats against the snapshot `snap`: the text appended to *value, as
\* the record of its figures, and the snapshot it leaves
DumpCFStats(snap) ==
  LET t == LevelLoop(TotalsZero, 0)
      curr_ingest == U64(cf_stats_value_["BYTES_FLUSHED"])
      interval_ingest == IntervalIngest(curr_ingest, snap.ingest_bytes)
      interval_stats == Subtract(t.stats_sum, snap.comp_stats)
  IN  [text |->
         [tag |-> "cfstats",
          rows |-> t.rows,
          sum |-> PrintLevelStats("Sum", t.total_files,
                    t.total_files_being_compacted, t.total_file_size, 0,
                    AggregateWAmp(t.stats_sum.bytes_written,
                                  U64Add(curr_ingest, U64(1))),
                    t.total_stall_us, t.total_stall_count, t.stats_sum),
          int |-> PrintLevelStats("Int", 0, 0, 0, 0,
                    AggregateWAmp(interval_stats.bytes_written, interval_ingest),
                    IntervalStallUs(t.total_stall_us, snap.stall_us),
                    IntervalStallCount(t.total_stall_count, snap.stall_count),
                    interval_stats),
          flush |-> [accumulative |-> Fig(curr_ingest, kGB, "GB", 3),
                     interval |-> Fig(interval_ingest, kGB, "GB", 3)],
          stalls_secs |->
            [level0_slowdown |->
               Fig(cf_stats_value_["LEVEL0_SLOWDOWN"], kMicrosInSec, "secs", 3),
             level0_numfiles |->
               Fig(cf_stats_value_["LEVEL0_NUM_FILES"], kMicrosInSec, "secs", 3),
             memtable_compaction |->
               Fig(cf_stats_value_["MEMTABLE_COMPACTION"], kMicrosInSec, "secs", 3),
             leveln_slowdown_soft |->
               Fig(t.total_slowdown_soft, kMicrosInSec, "secs", 3),
             leveln_slowdown_hard |->
               Fig(t.total_slowdown_hard, kMicrosInSec, "secs", 3)],
          stalls_count |->
            [level0_slowdown |-> U64(cf_stats_count_["LEVEL0_SLOWDOWN"]),
             level0_numfiles |-> U64(cf_stats_count_["LEVEL0_NUM_FILES"]),
             memtable_compaction |-> U64(cf_stats_count_["MEMTABLE_COMPACTION"]),
             leveln_slowdown_soft |-> t.total_slowdown_count_soft,
             leveln_slowdown_hard |-> t.total_slowdown_count_hard]],
       snapshot |-> NewCFSnapshot(curr_ingest, t)]

(***************************************************************************)
(* DumpDBStats.                                                            *)
(***************************************************************************)
\* an interval figure of the DB-wide report: current - snapshot
IntervalDB(current, snapshot) == U64Sub(current, snapshot)

DumpDBStats(snap) ==
  LET micros_up == now - started_at_ + 1
      seconds_up == DoubleMicros(micros_up)
      interval_seconds_up == DoubleSub(seconds_up, snap.seconds_up)
      user_bytes_written == U64(db_stats_["BYTES_WRITTEN"])
      num_keys_written == U64(db_stats_["NUMBER_KEYS_WRITTEN"])
      write_other == U64(db_stats_["WRITE_DONE_BY_OTHER"])
      write_self == U64(db_stats_["WRITE_DONE_BY_SELF"])
      wal_bytes == U64(db_stats_["WAL_FILE_BYTES"])
      wal_synced == U64(db_stats_["WAL_FILE_SYNCED"])
      write_with_wal == U64(db_stats_["WRITE_WITH_WAL"])
      write_stall_micros == U64(db_stats_["WRITE_STALL_MICROS"])
      interval_write_other == IntervalDB(write_other, snap.write_other)
      interval_write_self == IntervalDB(write_self, snap.write_self)
      interval_num_keys_written ==
        IntervalDB(num_keys_written, snap.num_keys_written)
      interval_write_with_wal == IntervalDB(write_with_wal, snap.write_with_wal)
      interval_wal_synced == IntervalDB(wal_synced, snap.wal_synced)
      interval_wal_bytes == IntervalDB(wal_bytes, snap.wal_bytes)
  IN  [text |->
         [tag |-> "dbstats",
          uptime |-> [total |-> Fig(micros_up, kMicrosInSec, "secs", 1),
                      interval |-> FigDouble(interval_seconds_up, "secs", 1)],
          cumulative |->
            [writes |-> U64Add(write_other, write_self),
             keys |-> num_keys_written,
             batches |-> write_self,
             writes_per_batch |-> Ratio(U64Add(write_other, write_self),
                                        U64Add(write_self, U64(1))),
             user_ingest |-> Fig(user_bytes_written, kGB, "GB", 2),
             stall_micros |-> write_stall_micros],
          cumulative_wal |->
            [writes |-> write_with_wal,
             syncs |-> wal_synced,
             writes_per_sync |-> Ratio(write_with_wal, U64Add(wal_synced, U64(1))),
             written |-> Fig(wal_bytes, kGB, "GB", 2)],
          interval |->
            [writes |-> U64Add(interval_write_other, interval_write_self),
             keys |-> interval_num_keys_written,
             batches |-> interval_write_self,
             writes_per_batch |->
               Ratio(U64Add(interval_write_other, interval_write_self),
                     U64Add(interval_write_self, U64(1))),
             user_ingest |->
               Fig(IntervalDB(user_bytes_written, snap.ingest_bytes), kMB, "MB", 1),
             stall_micros |->
               IntervalDB(write_stall_micros, snap.write_stall_micros)],
          interval_wal |->
            [writes |-> interval_write_with_wal,
             syncs |-> interval_wal_synced,
             writes_per_sync |-> Ratio(interval_write_with_wal,
                                       U64Add(interval_wal_synced, U64(1))),
             written |-> Fig(interval_wal_bytes, kGB, "MB", 2)]],
       snapshot |->
         [seconds_up |-> seconds_up,
          ingest_bytes |-> user_bytes_written,
          write_other |-> write_other,
          write_self |-> write_self,
          num_keys_written |-> num_keys_written,
          wal_bytes |-> wal_bytes,
          wal_synced |-> wal_synced,
          write_with_wal |-> write_with_wal,
          write_stall_micros |-> write_stall_micros]]

(***************************************************************************)
(* The query paths.                                                        *)
(***************************************************************************)
\* a Version*, possibly null
NullVersion == [is_null |-> TRUE, memory_usage_by_table_readers |-> 0]

Version(usage) == [is_null |-> FALSE, memory_usage_by_table_readers |-> usage]

\* as GetIntPropertyOutOfMutex, but a null version fails
IsolatedFailingOnNull(property_type, version, value) ==
  IF property_type # "kEstimatedUsageByTableReaders" \/ version.is_null
  THEN [ok |-> FALSE, value |-> value]
  ELSE [ok |-> TRUE, value |-> version.memory_usage_by_table_readers]

\* GetIntPropertyOutOfMutex(property_type, version, &value) with *value
\* holding `value` at the call
GetIntPropertyOutOfMutex(property_type, version, value) ==
  IF property_type # "kEstimatedUsageByTableReaders"
  THEN [ok |-> FALSE, value |-> value]
  ELSE IF version.is_null
       THEN [ok |-> TRUE, value |-> 0]
       ELSE [ok |-> TRUE, value |-> version.memory_usage_by_table_readers]

\* what GetIntProperty reads of the column family and of the DB under the
\* mutex: the memtables, the compaction picker, the snapshot list, ...
DBReading(n, flag) ==
  [imm_size |-> n, is_flush_pending |-> flag, needs_compaction |-> flag,
   background_error_count |-> n + 1, mem_memory_usage |-> n + 2,
   imm_memory_usage |-> n + 3, mem_num_entries |-> n + 4,
   imm_total_num_entries |-> n + 5, estimated_active_keys |-> n + 6,
   snapshots_count |-> n + 7, oldest_snapshot_time |-> n + 8,
   num_live_versions |-> n + 9, is_file_deletions_enabled |-> flag]

\* the case labels of the switch of GetIntProperty
InLockKinds ==
  {"kNumImmutableMemTable", "kMemtableFlushPending", "kCompactionPending",
   "kBackgroundErrors", "kCurSizeActiveMemTable", "kCurSizeAllMemTables",
   "kNumEntriesInMutableMemtable", "kNumEntriesInImmutableMemtable",
   "kEstimatedNumKeys", "kNumSnapshots", "kOldestSnapshotTime",
   "kNumLiveVersions", "kIsFileDeletionEnabled"}

\* what a case of the switch writes to *value
IntPropertyValue(property_type, db) ==
  CASE property_type = "kNumImmutableMemTable" -> db.imm_size
    [] property_type = "kMemtableFlushPending" ->
         IF db.is_flush_pending THEN 1 ELSE 0
    [] property_type = "kCompactionPending" ->
         IF db.needs_compaction THEN 1 ELSE 0
    [] property_type = "kBackgroundErrors" -> db.background_error_count
    [] property_type = "kCurSizeActiveMemTable" -> db.mem_memory_usage
    [] property_type = "kCurSizeAllMemTables" ->
         db.mem_memory_usage + db.imm_memory_usage
    [] property_type = "kNumEntriesInMutableMemtable" -> db.mem_num_entries
    [] property_type = "kNumEntriesInImmutableMemtable" ->
         db.imm_total_num_entries
    [] property_type = "kEstimatedNumKeys" ->
         db.mem_num_entries + db.imm_total_num_entries
         + db.estimated_active_keys
    [] property_type = "kNumSnapshots" -> db.snapshots_count
    [] property_type = "kOldestSnapshotTime" -> db.oldest_snapshot_time
    [] property_type = "kNumLiveVersions" -> db.num_live_versions
    [] property_type = "kIsFileDeletionEnabled" ->
         IF db.is_file_deletions_enabled THEN 1 ELSE 0

\* as GetIntProperty, with one more case: kEstimatedUsageByTableReaders,
\* answered under the mutex with 0
IntPathTakingIsolatedKind(property_type, value, db) ==
  IF property_type = "kEstimatedUsageByTableReaders"
  THEN [ok |-> TRUE, value |-> 0]
  ELSE IF property_type \in InLockKinds
  THEN [ok |-> TRUE, value |-> IntPropertyValue(property_type, db)]
  ELSE [ok |-> FALSE, value |-> value]

\* GetIntProperty(property_type, &value, db) with the mutex held and *value
\* holding `value` at the call
GetIntProperty(property_type, value, db) ==
  IF property_type \in InLockKinds
  THEN [ok |-> TRUE, value |-> IntPropertyValue(property_type, db)]
  ELSE [ok |-> FALSE, value |-> value]

\* snprintf("%d") of a non-negative int
RECURSIVE IntToDecimal(_)
IntToDecimal(n) ==
  IF n < 10 THEN SubSeq(Digits, n + 1, n + 1)
  ELSE IntToDecimal(n \div 10) \o SubSeq(Digits, (n % 10) + 1, (n % 10) + 1)

\* a std::string is the sequence of the pieces appended to it: plain text,
\* or the figures of a report
Text(str) == [tag |-> "text", text |-> str]

LevelStatsTable ==
  [tag |-> "levelstats",
   rows |-> [level \in Levels |->
               [files |-> NumLevelFiles(level),
                size |-> Fig(U64(NumLevelBytes(level)), kMB, "MB", 0)]]]

\* snprintf("%d") of an int read out of the bounds of the vector of levels:
\* the decimal of any int, the negative ones among them; which one is not
\* determined
IndeterminateInt == [tag |-> "indeterminate", type |-> "int"]

StringResult(ok, value, cf_snap, db_snap) ==
  [status |-> "returned", ok |-> ok, value |-> value,
   cf_stats_snapshot_ |-> cf_snap, db_stats_snapshot_ |-> db_snap]

\* the level argument passes the range check of kNumFilesAtLevel
LevelAccepted(parsed) ==
  parsed.ok /\ parsed.rest = "" /\ ToInt32(parsed.val) < number_levels_

\* as GetStringProperty, the case kCFStats lacking its return: it falls
\* through to the case kDBStats
GetStringPropertyFallThrough(property_type, property, value) ==
  CASE property_type = "kNumFilesAtLevel" ->
         LET in == remove_prefix(property, Len("rocksdb.num-files-at-level"))
             parsed == ConsumeDecimalNumber(in)
             level == ToInt32(parsed.val)
         IN  IF ~LevelAccepted(parsed)
             THEN {StringResult(FALSE, value, cf_stats_snapshot_, db_stats_snapshot_)}
             ELSE IF level \in Levels
             THEN {StringResult(TRUE, <<Text(IntToDecimal(NumLevelFiles(level)))>>,
                                cf_stats_snapshot_, db_stats_snapshot_)}
             ELSE {[status |-> "crashed"],
                   StringResult(TRUE, <<IndeterminateInt>>,
                                cf_stats_snapshot_, db_stats_snapshot_)}
    [] property_type = "kLevelStats" ->
         {StringResult(TRUE, Append(value, LevelStatsTable),
                       cf_stats_snapshot_, db_stats_snapshot_)}
    [] property_type = "kStats" ->
         LET cf == DumpCFStats(cf_stats_snapshot_)
             db == DumpDBStats(db_stats_snapshot_)
         IN  {StringResult(TRUE, Append(Append(Append(value, cf.text), db.text), db.text),
                           cf.snapshot, DumpDBStats(db.snapshot).snapshot)}
    [] property_type = "kCFStats" ->
         LET cf == DumpCFStats(cf_stats_snapshot_)
             db == DumpDBStats(db_stats_snapshot_)
         IN  {StringResult(TRUE, Append(Append(value, cf.text), db.text),
                           cf.snapshot, db.snapshot)}
    [] property_type = "kDBStats" ->
         LET db == DumpDBStats(db_stats_snapshot_)
         IN  {StringResult(TRUE, Append(value, db.text),
                           cf_stats_snapshot_, db.snapshot)}
    [] property_type = "kSsTables" ->
         {StringResult(TRUE, <<[tag |-> "sstables", files |-> files]>>,
                       cf_stats_snapshot_, db_stats_snapshot_)}
    [] OTHER ->
         {StringResult(FALSE, value, cf_stats_snapshot_, db_stats_snapshot_)}

\* The outcomes of GetStringProperty(property_type, property, &value) with
\* *value holding `value` at the call: one outcome, except where the source
\* indexes the level vector out of its bounds, which is undefined behaviour
\* (a crash, or success with the decimal of whatever int is read).
GetStringProperty(property_type, property, value) ==
  CASE property_type = "kNumFilesAtLevel" ->
         LET in == remove_prefix(property, Len("rocksdb.num-files-at-level"))
             parsed == ConsumeDecimalNumber(in)
             level == ToInt32(parsed.val)
         IN  IF ~LevelAccepted(parsed)
             THEN {StringResult(FALSE, value, cf_stats_snapshot_, db_stats_snapshot_)}
             ELSE IF level \in Levels
             THEN {StringResult(TRUE, <<Text(IntToDecimal(NumLevelFiles(level)))>>,
                                cf_stats_snapshot_, db_stats_snapshot_)}
             ELSE {[status |-> "crashed"],
                   StringResult(TRUE, <<IndeterminateInt>>,
                                cf_stats_snapshot_, db_stats_snapshot_)}
    [] property_type = "kLevelStats" ->
         {StringResult(TRUE, Append(value, LevelStatsTable),
                       cf_stats_snapshot_, db_stats_snapshot_)}
    [] property_type = "kStats" ->
         LET cf == DumpCFStats(cf_stats_snapshot_)
             db == DumpDBStats(db_stats_snapshot_)
         IN  {StringResult(TRUE, Append(Append(value, cf.text), db.text),
                           cf.snapshot, db.snapshot)}
    [] property_type = "kCFStats" ->
         LET cf == DumpCFStats(cf_stats_snapshot_)
         IN  {StringResult(TRUE, Append(value, cf.text),
                           cf.snapshot, db_stats_snapshot_)}
    [] property_type = "kDBStats" ->
         LET db == DumpDBStats(db_stats_snapshot_)
         IN  {StringResult(TRUE, Append(value, db.text),
                           cf_stats_snapshot_, db.snapshot)}
    [] property_type = "kSsTables" ->
         {StringResult(TRUE, <<[tag |-> "sstables", files |-> files]>>,
                       cf_stats_snapshot_, db_stats_snapshot_)}
    [] OTHER ->
         {StringResult(FALSE, value, cf_stats_snapshot_, db_stats_snapshot_)}

(***************************************************************************)
(* History kept for the properties: what the counters were at the last     *)
(* report of each scope, summed over all levels (cf_base, db_base);        *)
(* whether a report of the scope was made and no counter (cf_quiet,        *)
(* db_quiet) or no file (cf_still) changed since; whether the engine has   *)
(* only incremented counters so far (only_increments).                     *)
(***************************************************************************)
RECURSIVE SumStats(_)
SumStats(level) ==
  IF level < 0 THEN StatsZero ELSE Add(SumStats(level - 1), comp_stats_[level])

RECURSIVE SumStallUs(_)
SumStallUs(level) ==
  IF level < 0 THEN 0 ELSE SumStallUs(level - 1) + LevelStallUs(level)

RECURSIVE SumStalls(_)
SumStalls(level) ==
  IF level < 0 THEN 0 ELSE SumStalls(level - 1) + LevelStalls(level)

RECURSIVE SumLevelN(_, _)
SumLevelN(field, level) ==
  IF level < 0 THEN 0
  ELSE SumLevelN(field, level - 1) + stall_leveln_[level][field]

RECURSIVE SumBeingCompacted(_)
SumBeingCompacted(level) ==
  IF level < 0 THEN 0
  ELSE SumBeingCompacted(level - 1) + NumBeingCompacted(level)

AllLevelsTotals ==
  [ingest |-> cf_stats_value_["BYTES_FLUSHED"],
   stats |-> SumStats(number_levels_ - 1),
   stall_us |-> SumStallUs(number_levels_ - 1),
   stall_count |-> SumStalls(number_levels_ - 1)]

HistInit ==
  [cf_base |-> [ingest |-> 0, stats |-> StatsZero, stall_us |-> 0, stall_count |-> 0],
   db_base |-> [t \in DBStatsTypes |-> 0],
   cf_quiet |-> FALSE, cf_still |-> FALSE, db_quiet |-> FALSE,
   only_increments |-> TRUE]

(***************************************************************************)
(* Initial state: the InternalStats of a column family just opened.        *)
(***************************************************************************)
LevelNZero ==
  [slowdown_soft |-> 0, slowdown_hard |-> 0,
   slowdown_count_soft |-> 0, slowdown_count_hard |-> 0]

Init ==
  /\ number_levels_ \in {MaxLevels - 1, MaxLevels}
  /\ compaction_style \in CompactionStyles
  /\ files = [level \in Levels |-> <<>>]
  /\ comp_stats_ = [level \in Levels |-> StatsZero]
  /\ cf_stats_value_ = [t \in CFStatsTypes |-> 0]
  /\ cf_stats_count_ = [t \in CFStatsTypes |-> 0]
  /\ stall_leveln_ = [level \in Levels |-> LevelNZero]
  /\ db_stats_ = [t \in DBStatsTypes |-> 0]
  /\ now = 0
  /\ started_at_ = 0
  /\ cf_stats_snapshot_ =
       [ingest_bytes |-> U64Zero, comp_stats |-> StatsZero,
        stall_us |-> 0, stall_count |-> U64Zero]
  /\ db_stats_snapshot_ =
       [seconds_up |-> DoubleMicros(0), ingest_bytes |-> U64Zero,
        write_other |-> U64Zero,
        write_self |-> U64Zero, num_keys_written |-> U64Zero,
        wal_bytes |-> U64Zero, wal_synced |-> U64Zero,
        write_with_wal |-> U64Zero, write_stall_micros |-> U64Zero]
  /\ out = [op |-> "constructed", status |-> "returned"]
  /\ hist = HistInit
  /\ steps = [engine |-> 0, reports |-> 0]

Alive == out.status # "crashed"

(***************************************************************************)
(* The engine: the collaborators that write the counters and install       *)
(* versions.                                                               *)
(***************************************************************************)
\* what a compaction or a flush adds to the stats of its output level
CompactionSamples ==
  { [StatsZero EXCEPT !.micros = 2, !.bytes_readn = 1, !.bytes_readnp1 = 1,
                      !.bytes_written = 2, !.num_input_records = 2,
                      !.num_dropped_records = 1, !.count = 1],
    [StatsZero EXCEPT !.micros = 1, !.bytes_written = 1, !.count = 1] }

EngineStep(what) ==
  /\ Alive
  /\ steps.engine < MaxEnvSteps
  /\ steps' = [steps EXCEPT !.engine = @ + 1]
  /\ out' = [op |-> what, status |-> "returned"]
  /\ UNCHANGED <<config, snapshots>>

CFCounterStep ==
  /\ EngineStep("engine")
  /\ hist' = [hist EXCEPT !.cf_quiet = FALSE]
  /\ UNCHANGED <<db_stats_, now>>

AddCompactionStats(level, stats) ==
  /\ CFCounterStep
  /\ comp_stats_' = [comp_stats_ EXCEPT ![level] = Add(@, stats)]
  /\ UNCHANGED <<files, cf_stats_value_, cf_stats_count_, stall_leveln_>>

\* AddCFStats(type, value): a stall of 10 ms, or a flushed byte
AddCFStats(type) ==
  /\ CFCounterStep
  /\ cf_stats_value_' =
       [cf_stats_value_ EXCEPT
          ![type] = @ + (IF type = "BYTES_FLUSHED" THEN 1 ELSE 10 * 1000)]
  /\ cf_stats_count_' = [cf_stats_count_ EXCEPT ![type] = @ + 1]
  /\ UNCHANGED <<files, comp_stats_, stall_leveln_>>

\* a write is slowed down for 10 ms because of the level with the highest
\* score, a level that holds files
RecordLevelNSlowdown ==
  \E level \in Levels, soft \in BOOLEAN :
    /\ Len(files[level]) > 0
    /\ CFCounterStep
    /\ stall_leveln_' =
         IF soft
         THEN [stall_leveln_ EXCEPT ![level].slowdown_soft = @ + 10 * 1000,
                                    ![level].slowdown_count_soft = @ + 1]
         ELSE [stall_leveln_ EXCEPT ![level].slowdown_hard = @ + 10 * 1000,
                                    ![level].slowdown_count_hard = @ + 1]
    /\ UNCHANGED <<files, comp_stats_, cf_stats_value_, cf_stats_count_>>

VersionStep ==
  /\ EngineStep("engine")
  /\ hist' = [hist EXCEPT !.cf_still = FALSE, !.only_increments = FALSE]
  /\ UNCHANGED <<comp_stats_, cf_stats_value_, cf_stats_count_, stall_leveln_,
                 db_stats_, now>>

\* a flush or a compaction adds a file to a level
AddFile ==
  \E level \in Levels :
    /\ Len(files[level]) < MaxFiles
    /\ VersionStep
    /\ files' = [files EXCEPT ![level] =
                   Append(@, [being_compacted |-> FALSE, file_size |-> 1])]

\* a compaction picks a file as its input (the first one not yet picked)
PickFile ==
  \E level \in Levels :
    \E i \in 1..Len(files[level]) :
      /\ ~files[level][i].being_compacted
      /\ \A j \in 1..(i - 1) : files[level][j].being_compacted
      /\ VersionStep
      /\ files' = [files EXCEPT ![level][i].being_compacted = TRUE]

\* a compaction ends and its input file leaves the level
RemoveFile ==
  \E level \in Levels :
    /\ Len(files[level]) > 0
    /\ VersionStep
    /\ files' = [files EXCEPT ![level] = Tail(@)]

\* a trivial move: a file not being compacted goes to the next level as it
\* is, and IncBytesMoved counts its size there
TrivialMove ==
  \E level \in Levels :
    /\ level + 1 < number_levels_
    /\ Len(files[level]) > 0
    /\ Len(files[level + 1]) < MaxFiles
    /\ ~files[level][Len(files[level])].being_compacted
    /\ EngineStep("engine")
    /\ hist' = [hist EXCEPT !.cf_quiet = FALSE, !.cf_still = FALSE,
                            !.only_increments = FALSE]
    /\ files' = [files EXCEPT
                   ![level] = SubSeq(@, 1, Len(@) - 1),
                   ![level + 1] = Append(@, files[level][Len(files[level])])]
    /\ comp_stats_' =
         [comp_stats_ EXCEPT ![level + 1].bytes_moved =
            @ + files[level][Len(files[level])].file_size]
    /\ UNCHANGED <<cf_stats_value_, cf_stats_count_, stall_leveln_, db_stats_, now>>

AddDBStats ==
  \E type \in DBStatsTypes :
    /\ EngineStep("engine")
    /\ db_stats_' =
         [db_stats_ EXCEPT
            ![type] = @ + (IF type \in {"BYTES_WRITTEN", "WAL_FILE_BYTES"}
                           THEN kMB + kMB \div 2 ELSE 1)]
    /\ hist' = [hist EXCEPT !.db_quiet = FALSE]
    /\ UNCHANGED <<cf_counters, now>>

\* the clock advances
Tick ==
  /\ EngineStep("engine")
  /\ now' = now + 1
  /\ UNCHANGED <<cf_counters, db_stats_, hist>>

(***************************************************************************)
(* The calls.                                                              *)
(***************************************************************************)
KnownNames ==
  {"levelstats", "stats", "cfstats", "dbstats", "sstables"}
  \cup {IntNames[i][1] : i \in 1..Len(IntNames)}

\* what may follow "rocksdb.num-files-at-level"
LevelArguments ==
  {"", "0", "1", "2", "3", "4", "01", "1x", "x", "-1", " 1", "2147483647",
   "2147483648", "4294967295", "4294967296", "4294967297",
   "18446744073709551615", "18446744073709551616"}

UnknownNames ==
  {"", "rocksdb", "rocksdb.", "rocksdb.foo", "rocksdb.statsx", "rocksdb.stat",
   "rocksdb.estimate-table-readers-me", "rocksdb.rocksdb.stats", "levelstats",
   "estimate-num-keys", "Rocksdb.stats", "num-files-at-level0"}

Properties ==
  {Prefix \o n : n \in KnownNames}
  \cup {Prefix \o "num-files-at-level" \o a : a \in LevelArguments}
  \cup UnknownNames

\* what *value may hold when a string query is made
ValuesBefore == {<<>>, <<Text("before")>>}

Versions == {NullVersion, Version(0), Version(5)}

\* what the DB may hold when GetIntProperty is called
DBReadings == {DBReading(0, FALSE), DBReading(1, TRUE)}

\* what *value may hold when an integer query is made
ValuesAtCall == {7}

IsReport(property_type) == property_type \in {"kCFStats", "kDBStats", "kStats"}

\* the last call wrote nothing but its results
LastCallPure ==
  \/ out.op \in {"GetPropertyType", "GetIntPropertyOutOfMutex", "GetIntProperty"}
  \/ out.op = "GetStringProperty" /\ ~IsReport(out.property_type)

Query(call) ==
  /\ Alive
  /\ out' = call
  /\ UNCHANGED <<config, cf_counters, db_stats_, now>>

\* A call that writes no snapshot changes `out` alone, so the states reached
\* are the same when such a call is made only after a step of another kind;
\* the model makes it only then.
PureQuery(call) == ~LastCallPure /\ Query(call)

\* GetPropertyType(property, &is_int_property, &need_out_of_mutex)
ResolveCall ==
  \E property \in Properties :
    /\ PureQuery([op |-> "GetPropertyType", status |-> "returned",
              property |-> property, result |-> GetPropertyType(property)])
    /\ UNCHANGED <<snapshots, hist, steps>>

\* GetIntPropertyOutOfMutex(property_type, version, &value)
IsolatedCall ==
  \E property_type \in Kinds, version \in Versions, value \in ValuesAtCall :
    /\ PureQuery([op |-> "GetIntPropertyOutOfMutex", status |-> "returned",
              property_type |-> property_type, version |-> version,
              value_before |-> value,
              result |-> GetIntPropertyOutOfMutex(property_type, version, value)])
    /\ UNCHANGED <<snapshots, hist, steps>>

\* GetIntProperty(property_type, &value, db)
IntCall ==
  \E property_type \in Kinds, db \in DBReadings, value \in ValuesAtCall :
    /\ PureQuery([op |-> "GetIntProperty", status |-> "returned",
              property_type |-> property_type, db |-> db,
              value_before |-> value,
              result |-> GetIntProperty(property_type, value, db)])
    /\ UNCHANGED <<snapshots, hist, steps>>

\* GetStringProperty(property_type, property, &value), the kind being the
\* one the property resolves to
StringCall(property, value) ==
  LET property_type == GetPropertyType(property).kind
      cf_report == property_type \in {"kCFStats", "kStats"}
      db_report == property_type \in {"kDBStats", "kStats"}
  IN  /\ IF cf_report \/ db_report THEN steps.reports < MaxReports
         ELSE ~LastCallPure
      /\ \E r \in GetStringProperty(property_type, property, value) :
           /\ Query([op |-> "GetStringProperty", status |-> r.status,
                     property_type |-> property_type, property |-> property,
                     value_before |-> value, result |-> r,
                     before |-> [cf_stats_snapshot_ |-> cf_stats_snapshot_,
                                 db_stats_snapshot_ |-> db_stats_snapshot_,
                                 hist |-> hist]])
           /\ cf_stats_snapshot_' =
                IF r.status = "returned" THEN r.cf_stats_snapshot_
                ELSE cf_stats_snapshot_
           /\ db_stats_snapshot_' =
                IF r.status = "returned" THEN r.db_stats_snapshot_
                ELSE db_stats_snapshot_
      /\ hist' =
           [hist EXCEPT
              !.cf_base = IF cf_report THEN AllLevelsTotals ELSE @,
              !.cf_quiet = IF cf_report THEN TRUE ELSE @,
              !.cf_still = IF cf_report THEN TRUE ELSE @,
              !.db_base = IF db_report THEN db_stats_ ELSE @,
              !.db_quiet = IF db_report THEN TRUE ELSE @]
      /\ steps' = IF cf_report \/ db_report
                  THEN [steps EXCEPT !.reports = @ + 1] ELSE steps

NumFilesCall ==
  \E a \in LevelArguments, value \in ValuesBefore :
    StringCall(Prefix \o "num-files-at-level" \o a, value)

LevelStatsCall == \E value \in ValuesBefore : StringCall("rocksdb.levelstats", value)

SsTablesCall == \E value \in ValuesBefore : StringCall("rocksdb.sstables", value)

CFStatsCall == StringCall("rocksdb.cfstats", <<Text("before")>>)

DBStatsCall == StringCall("rocksdb.dbstats", <<Text("before")>>)

StatsCall == StringCall("rocksdb.stats", <<Text("before")>>)

\* the string path called for a name that is no string property
OtherStringCall ==
  \E property \in UnknownNames \cup {Prefix \o IntNames[i][1] : i \in 1..Len(IntNames)} :
    StringCall(property, <<Text("before")>>)

(***************************************************************************)
(* Specifications.                                                         *)
(***************************************************************************)
AnyCompactionStats ==
  \E level \in Levels, stats \in CompactionSamples : AddCompactionStats(level, stats)

AnyCFStats == \E type \in CFStatsTypes : AddCFStats(type)

Next ==
  \/ AnyCompactionStats \/ AnyCFStats \/ RecordLevelNSlowdown
  \/ AddFile \/ PickFile \/ RemoveFile \/ TrivialMove \/ AddDBStats \/ Tick
  \/ ResolveCall \/ IsolatedCall \/ IntCall \/ NumFilesCall \/ LevelStatsCall
  \/ SsTablesCall \/ CFStatsCall \/ DBStatsCall \/ StatsCall \/ OtherStringCall

Spec == Init /\ [][Next]_vars

\* the column family's counters and its report
NextCF ==
  \/ AnyCompactionStats \/ AnyCFStats \/ RecordLevelNSlowdown
  \/ AddFile \/ PickFile \/ RemoveFile \/ TrivialMove \/ CFStatsCall

SpecCF == Init /\ [][NextCF]_vars

\* the part of it the write amplification reads: the compaction stats, the
\* flushed bytes and the snapshot
NextWAmp ==
  \/ AnyCompactionStats \/ AddCFStats("BYTES_FLUSHED") \/ CFStatsCall

SpecWAmp == Init /\ [][NextWAmp]_vars

\* the DB-wide counters and their report
NextDB == AddDBStats \/ Tick \/ DBStatsCall

SpecDB == Init /\ [][NextDB]_vars

\* the catalog and the queries that write no snapshot
NextQuery ==
  \/ AddFile \/ PickFile \/ RemoveFile
  \/ ResolveCall \/ IsolatedCall \/ IntCall \/ NumFilesCall \/ LevelStatsCall
  \/ SsTablesCall \/ OtherStringCall

SpecQuery == Init /\ [][NextQuery]_vars

\* every query of the three paths, between flushes and ticks of the clock,
\* which make the two reports and their snapshots change
NextFrame ==
  \/ AddCFStats("BYTES_FLUSHED") \/ Tick
  \/ ResolveCall \/ IsolatedCall \/ IntCall \/ NumFilesCall \/ LevelStatsCall
  \/ SsTablesCall \/ CFStatsCall \/ DBStatsCall \/ StatsCall \/ OtherStringCall

\* what a query writes depends neither on the number of levels nor on the
\* compaction style, which only figures of the reports read: one
\* configuration is taken
InitFrame ==
  Init /\ number_levels_ = MaxLevels /\ compaction_style = "kCompactionStyleLevel"

SpecFrame == InitFrame /\ [][NextFrame]_vars

(***************************************************************************)
(* What the last call was.                                                 *)
(***************************************************************************)
IsStringCall == out.op = "GetStringProperty" /\ out.status = "returned"

IsCFReport == IsStringCall /\ out.property_type \in {"kCFStats", "kStats"}

IsDBReport == IsStringCall /\ out.property_type \in {"kDBStats", "kStats"}

\* the column-family report and the DB-wide report in the string returned
CFReport == out.result.value[Len(out.value_before) + 1]

DBReport == out.result.value[Len(out.result.value)]

(***************************************************************************)
(* The catalog and the level argument.                                     *)
(***************************************************************************)
\* the property is one of the names of the catalog
IsKnownName(property) ==
  /\ starts_with(property, Prefix)
  /\ LET name == remove_prefix(property, Len(Prefix))
     IN  name \in KnownNames \/ starts_with(name, "num-files-at-level")

\* C1: GetPropertyType returns (kUnknown, false, false) for every string that
\* is not a known property name, with or without the "rocksdb." prefix.
C1_UnknownIsAllFalse ==
  (out.op = "GetPropertyType" /\ ~IsKnownName(out.property))
    => out.result = PropertyResult("kUnknown", FALSE, FALSE)

AllDigits(str) == \A i \in 1..Len(str) : IsDigit(SubSeq(str, i, i))

RECURSIVE StripZeros(_)
StripZeros(str) ==
  IF Len(str) > 1 /\ Head(str) = "0" THEN StripZeros(Tail(str)) ELSE str

\* the string is a decimal number, of any length, naming the level
NamesLevel(str, level) ==
  str # "" /\ AllDigits(str) /\ StripZeros(str) = IntToDecimal(level)

LevelArgument == remove_prefix(out.property, Len("rocksdb.num-files-at-level"))

\* C2: a num-files-at-level query succeeds with exactly the file count of
\* level N when its argument is a decimal N below number_levels_, and for
\* every other argument (empty, not a number, trailing characters, N at or
\* above number_levels_, however large) it fails and leaves *value alone.
C2_NumFilesAtLevel ==
  (out.op = "GetStringProperty" /\ out.property_type = "kNumFilesAtLevel")
    => /\ out.status = "returned"
       /\ IF \E level \in Levels : NamesLevel(LevelArgument, level)
          THEN LET level == CHOOSE l \in Levels : NamesLevel(LevelArgument, l)
               IN  /\ out.result.ok
                   /\ out.result.value = <<Text(IntToDecimal(NumLevelFiles(level)))>>
          ELSE ~out.result.ok /\ out.result.value = out.value_before

\* C5: the isolated integer path succeeds only for
\* kEstimatedUsageByTableReaders, with 0 for a null version and the version's
\* table-reader memory otherwise; for any other kind it fails and does not
\* write *value.
C5_IsolatedPath ==
  out.op = "GetIntPropertyOutOfMutex"
    => IF out.property_type = "kEstimatedUsageByTableReaders"
       THEN /\ out.result.ok
            /\ out.result.value =
                 IF out.version.is_null THEN 0
                 ELSE out.version.memory_usage_by_table_readers
       ELSE ~out.result.ok /\ out.result.value = out.value_before

\* the null version was queried and 0 was written over the value
C5_Witness ==
  /\ out.op = "GetIntPropertyOutOfMutex"
  /\ out.property_type = "kEstimatedUsageByTableReaders"
  /\ out.version.is_null
  /\ out.value_before # 0
  /\ out.result = [ok |-> TRUE, value |-> 0]

(***************************************************************************)
(* The reports.                                                            *)
(***************************************************************************)
U64Less(a, b) ==
  \E i \in 1..4 : a[i] < b[i] /\ \A j \in (i + 1)..4 : a[j] = b[j]

Max(a, b) == IF a >= b THEN a ELSE b

\* the double num / den, den a uint64_t, is the quotient n / d
RatEq(ratio, n, d) == U64Small(ratio.den) /\ ratio.num * d = n * U64Nat(ratio.den)

\* the row of a level in the last column-family report
RowOf(level) ==
  CFReport.rows[CHOOSE i \in 1..Len(CFReport.rows) :
                  CFReport.rows[i].name = LevelName(level)]

\* the CompactionStats a row was printed from
RowStats(row) ==
  [micros |-> row.comp_sec.val, bytes_readn |-> U64Nat(row.rn.val),
   bytes_readnp1 |-> U64Nat(row.rnp1.val), bytes_written |-> U64Nat(row.write.val),
   bytes_moved |-> U64Nat(row.moved.val),
   num_input_records |-> U64Nat(row.record_in),
   num_dropped_records |-> U64Nat(row.record_drop), count |-> row.comp_cnt]

\* the figure is printed as zero
ShowsZero(shown) == ~shown.neg /\ shown.int = U64Zero /\ shown.frac = 0

ByteColumns == {"read", "rn", "rnp1", "write", "wnew", "moved"}

\* the row shows the CompactionStats `stats`, the stall time and the stall
\* count given
RowShows(row, stats, stall_us, stall_count) ==
  /\ ShownBytes(row.rn) = PrintedBytes(U64(stats.bytes_readn), kGB, 1)
  /\ ShownBytes(row.rnp1) = PrintedBytes(U64(stats.bytes_readnp1), kGB, 1)
  /\ ShownBytes(row.read) =
       PrintedBytes(U64(stats.bytes_readn + stats.bytes_readnp1), kGB, 1)
  /\ ShownBytes(row.write) = PrintedBytes(U64(stats.bytes_written), kGB, 1)
  /\ ShownBytes(row.moved) = PrintedBytes(U64(stats.bytes_moved), kGB, 1)
  /\ ShownSecs(row.comp_sec) = PrintedMicros(stats.micros, 0)
  /\ row.comp_cnt = stats.count
  /\ row.record_in = U64(stats.num_input_records)
  /\ row.record_drop = U64(stats.num_dropped_records)
  /\ ShownSecs(row.stall_sec) = PrintedMicros(stall_us, 2)
  /\ row.stall_cnt = U64(stall_count)

\* every figure of the Int row is printed as zero
IntRowZero(row) ==
  /\ \A col \in ByteColumns : ShowsZero(ShownBytes(row[col]))
  /\ ShowsZero(ShownSecs(row.comp_sec)) /\ row.comp_cnt = 0
  /\ row.record_in = U64Zero /\ row.record_drop = U64Zero
  /\ ShowsZero(ShownSecs(row.stall_sec)) /\ row.stall_cnt = U64Zero

\* every interval figure of the DB-wide report is printed as zero
DBIntervalZero(report) ==
  /\ report.interval.writes = U64Zero /\ report.interval.keys = U64Zero
  /\ report.interval.batches = U64Zero
  /\ ShowsZero(ShownBytes(report.interval.user_ingest))
  /\ report.interval.stall_micros = U64Zero
  /\ report.interval_wal.writes = U64Zero /\ report.interval_wal.syncs = U64Zero
  /\ ShowsZero(ShownBytes(report.interval_wal.written))

\* C3: a report made right after a report of the same scope, no counter
\* having changed in between, shows zero in every interval figure: the DB-wide
\* interval fields, and the Int row and the interval flush bytes of the
\* column-family report.
C3_SecondReportIsZero ==
  /\ (IsCFReport /\ out.before.hist.cf_quiet)
       => /\ IntRowZero(CFReport.int)
          /\ ShowsZero(ShownBytes(CFReport.flush.interval))
  /\ (IsDBReport /\ out.before.hist.db_quiet) => DBIntervalZero(DBReport)

\* What does hold of the second report: with no counter and no file changed,
\* the Int row is printed as zero, and so are the interval flush bytes (the
\* one byte DumpCFStats adds to them is below what "%.3f" GB shows).
SecondReportIntRowZero ==
  (IsCFReport /\ out.before.hist.cf_quiet /\ out.before.hist.cf_still)
    => /\ IntRowZero(CFReport.int)
       /\ CFReport.flush.interval.val = U64(1)
       /\ ShowsZero(ShownBytes(CFReport.flush.interval))

SecondDBReportZero ==
  (IsDBReport /\ out.before.hist.db_quiet) => DBIntervalZero(DBReport)

\* C4: where a current value or cumulative total is lower than the value in
\* the snapshot, the interval figure is 0, not a wrapped or negative value:
\* the Int row's stall count and stall time, the interval flush bytes, and the
\* DB-wide interval fields.
C4_IntervalClampedAtZero ==
  /\ IsCFReport =>
       LET snap == out.before.cf_stats_snapshot_ IN
       /\ U64Less(CFReport.sum.stall_cnt, snap.stall_count)
            => CFReport.int.stall_cnt = U64Zero
       /\ CFReport.sum.stall_sec.val < snap.stall_us
            => CFReport.int.stall_sec.val = 0
       /\ U64Less(CFReport.flush.accumulative.val, snap.ingest_bytes)
            => CFReport.flush.interval.val = U64Zero
  /\ IsDBReport =>
       LET snap == out.before.db_stats_snapshot_ IN
       /\ U64Less(DBReport.cumulative.keys, snap.num_keys_written)
            => DBReport.interval.keys = U64Zero
       /\ U64Less(DBReport.cumulative.batches, snap.write_self)
            => DBReport.interval.batches = U64Zero
       /\ U64Less(DBReport.cumulative.user_ingest.val, snap.ingest_bytes)
            => DBReport.interval.user_ingest.val = U64Zero
       /\ U64Less(DBReport.cumulative.stall_micros, snap.write_stall_micros)
            => DBReport.interval.stall_micros = U64Zero
       /\ U64Less(DBReport.cumulative_wal.writes, snap.write_with_wal)
            => DBReport.interval_wal.writes = U64Zero
       /\ U64Less(DBReport.cumulative_wal.syncs, snap.wal_synced)
            => DBReport.interval_wal.syncs = U64Zero
       /\ U64Less(DBReport.cumulative_wal.written.val, snap.wal_bytes)
            => DBReport.interval_wal.written.val = U64Zero

\* C6: the Sum row shows the elementwise sum of the CompactionStats of all
\* levels and the stall totals of all levels, whether or not a level has a
\* row; so do the leveln soft and hard totals.
C6_SumOverAllLevels ==
  IsCFReport =>
    /\ RowShows(CFReport.sum, SumStats(number_levels_ - 1),
                SumStallUs(number_levels_ - 1), SumStalls(number_levels_ - 1))
    /\ CFReport.stalls_secs.leveln_slowdown_soft.val =
         U64(SumLevelN("slowdown_soft", number_levels_ - 1))
    /\ CFReport.stalls_secs.leveln_slowdown_hard.val =
         U64(SumLevelN("slowdown_hard", number_levels_ - 1))
    /\ CFReport.stalls_count.leveln_slowdown_soft =
         U64(SumLevelN("slowdown_count_soft", number_levels_ - 1))
    /\ CFReport.stalls_count.leveln_slowdown_hard =
         U64(SumLevelN("slowdown_count_hard", number_levels_ - 1))

\* C7: the row of every level that has one shows the number of files of the
\* level whose being_compacted flag is set, and the Sum row the number of
\* such files over all levels.
C7_FilesBeingCompacted ==
  IsCFReport =>
    /\ \A level \in Levels :
         HasRow(level) => RowOf(level).being_compacted = NumBeingCompacted(level)
    /\ CFReport.sum.being_compacted = SumBeingCompacted(number_levels_ - 1)

\* the bytes flushed into level 0 since the snapshot the report was made against
IntervalFlushed ==
  U64Nat(U64Sub(U64(cf_stats_value_["BYTES_FLUSHED"]),
                out.before.cf_stats_snapshot_.ingest_bytes))

\* C8, as the claim states it: the write amplification of a level row is
\* bytes_written / max(bytes_readn, 1) of the level, and that of the Sum and
\* Int rows is the row's bytes_written / max(ingest_bytes, 1), the bytes
\* flushed into level 0 (cumulative for Sum, interval for Int).
C8_WAmpMaxDenominator ==
  IsCFReport =>
    /\ \A level \in Levels :
         HasRow(level) =>
           RatEq(RowOf(level).w_amp, comp_stats_[level].bytes_written,
                 Max(comp_stats_[level].bytes_readn, 1))
    /\ RatEq(CFReport.sum.w_amp, RowStats(CFReport.sum).bytes_written,
             Max(cf_stats_value_["BYTES_FLUSHED"], 1))
    /\ RatEq(CFReport.int.w_amp, RowStats(CFReport.int).bytes_written,
             Max(IntervalFlushed, 1))

\* C8, amended: the write amplification of a level row is 0 when the level's
\* bytes_readn is 0 and bytes_written / bytes_readn otherwise; that of the
\* Sum row is the row's bytes_written / (bytes flushed + 1), and that of the
\* Int row is the row's bytes_written / (bytes flushed since the snapshot + 1).
C8_WAmpAsComputed ==
  IsCFReport =>
    /\ \A level \in Levels :
         HasRow(level) =>
           IF comp_stats_[level].bytes_readn = 0
           THEN RatEq(RowOf(level).w_amp, 0, 1)
           ELSE RatEq(RowOf(level).w_amp, comp_stats_[level].bytes_written,
                      comp_stats_[level].bytes_readn)
    /\ RatEq(CFReport.sum.w_amp, RowStats(CFReport.sum).bytes_written,
             cf_stats_value_["BYTES_FLUSHED"] + 1)
    /\ RatEq(CFReport.int.w_amp, RowStats(CFReport.int).bytes_written,
             IntervalFlushed + 1)

\* a second report, made against a snapshot that holds flushed bytes, shows
\* a level that has written without reading from its own level, a level that
\* has read from it, and an Int row with bytes written since the first report
C8_Witness ==
  /\ IsCFReport
  /\ steps.reports = 2
  /\ out.before.cf_stats_snapshot_.ingest_bytes # U64Zero
  /\ \E level \in Levels :
       /\ HasRow(level)
       /\ comp_stats_[level].bytes_readn = 0
       /\ comp_stats_[level].bytes_written > 0
  /\ \E level \in Levels : HasRow(level) /\ comp_stats_[level].bytes_readn > 0
  /\ RowStats(CFReport.int).bytes_written > 0

\* the number of bytes the unit of a label stands for
UnitBytes(unit) == IF unit = "MB" THEN kMB ELSE kGB

\* the figure printed is the byte count divided by the unit its label names
ShownInUnit(fig) ==
  ShownBytes(fig) = PrintedBytes(fig.val, UnitBytes(fig.unit), fig.dec)

RowShownInUnits(row) ==
  ShownInUnit(row.size) /\ \A col \in ByteColumns : ShownInUnit(row[col])

\* C9: every byte quantity of a report is divided by the unit its label
\* names, 2^20 for MB and 2^30 for GB: the user ingest and the WAL bytes of
\* the DB-wide report, cumulative and interval, and Size(MB), the GB columns
\* and Flush(GB) of the column-family report.
C9_UnitsAsLabelled ==
  /\ IsDBReport =>
       /\ ShownInUnit(DBReport.cumulative.user_ingest)
       /\ ShownInUnit(DBReport.cumulative_wal.written)
       /\ ShownInUnit(DBReport.interval.user_ingest)
       /\ ShownInUnit(DBReport.interval_wal.written)
  /\ IsCFReport =>
       /\ \A i \in 1..Len(CFReport.rows) : RowShownInUnits(CFReport.rows[i])
       /\ RowShownInUnits(CFReport.sum)
       /\ RowShownInUnits(CFReport.int)
       /\ ShownInUnit(CFReport.flush.accumulative)
       /\ ShownInUnit(CFReport.flush.interval)

\* What does hold: every byte figure but the interval WAL bytes is divided by
\* the unit of its label.
UnitsButIntervalWal ==
  /\ IsDBReport =>
       /\ ShownInUnit(DBReport.cumulative.user_ingest)
       /\ ShownInUnit(DBReport.cumulative_wal.written)
       /\ ShownInUnit(DBReport.interval.user_ingest)
  /\ IsCFReport =>
       /\ \A i \in 1..Len(CFReport.rows) : RowShownInUnits(CFReport.rows[i])
       /\ RowShownInUnits(CFReport.sum)
       /\ RowShownInUnits(CFReport.int)
       /\ ShownInUnit(CFReport.flush.accumulative)
       /\ ShownInUnit(CFReport.flush.interval)

\* the column-family snapshot holds the cumulative figures of the last report
CFSnapshotIsReport ==
  cf_stats_snapshot_ =
    [ingest_bytes |-> CFReport.flush.accumulative.val,
     comp_stats |-> RowStats(CFReport.sum),
     stall_us |-> CFReport.sum.stall_sec.val,
     stall_count |-> CFReport.sum.stall_cnt]

\* the DB-wide snapshot holds the cumulative figures of the last report
DBSnapshotIsReport ==
  /\ db_stats_snapshot_.seconds_up = DoubleMicros(DBReport.uptime.total.val)
  /\ db_stats_snapshot_.ingest_bytes = DBReport.cumulative.user_ingest.val
  /\ U64Add(db_stats_snapshot_.write_other, db_stats_snapshot_.write_self)
       = DBReport.cumulative.writes
  /\ db_stats_snapshot_.write_self = DBReport.cumulative.batches
  /\ db_stats_snapshot_.num_keys_written = DBReport.cumulative.keys
  /\ db_stats_snapshot_.wal_bytes = DBReport.cumulative_wal.written.val
  /\ db_stats_snapshot_.wal_synced = DBReport.cumulative_wal.syncs
  /\ db_stats_snapshot_.write_with_wal = DBReport.cumulative_wal.writes
  /\ db_stats_snapshot_.write_stall_micros = DBReport.cumulative.stall_micros

\* the interval figures of the column-family report are the increase of the
\* counters since the report before (since the start, for the first report)
CFIntervalIsIncrease ==
  LET base == out.before.hist.cf_base
      stats == SumStats(number_levels_ - 1)
  IN  /\ RowShows(CFReport.int, [f \in StatsFields |-> stats[f] - base.stats[f]],
                   SumStallUs(number_levels_ - 1) - base.stall_us,
                   SumStalls(number_levels_ - 1) - base.stall_count)
      /\ ShownBytes(CFReport.flush.interval) =
           PrintedBytes(U64(cf_stats_value_["BYTES_FLUSHED"] - base.ingest), kGB, 3)

\* the interval figures of the DB-wide report are the increase of the
\* counters since the report before (since the start, for the first report)
DBIntervalIsIncrease ==
  LET d == [t \in DBStatsTypes |-> U64(db_stats_[t] - out.before.hist.db_base[t])]
  IN  /\ DBReport.interval.writes =
           U64Add(d["WRITE_DONE_BY_OTHER"], d["WRITE_DONE_BY_SELF"])
      /\ DBReport.interval.keys = d["NUMBER_KEYS_WRITTEN"]
      /\ DBReport.interval.batches = d["WRITE_DONE_BY_SELF"]
      /\ ShownBytes(DBReport.interval.user_ingest) =
           PrintedBytes(d["BYTES_WRITTEN"], kMB, 1)
      /\ DBReport.interval.stall_micros = d["WRITE_STALL_MICROS"]
      /\ DBReport.interval_wal.writes = d["WRITE_WITH_WAL"]
      /\ DBReport.interval_wal.syncs = d["WAL_FILE_SYNCED"]
      /\ DBReport.interval_wal.written.val = d["WAL_FILE_BYTES"]

\* C10: after a report the snapshot of its scope equals the cumulative values
\* the report computed (overwritten, not accumulated); hence, the engine only
\* incrementing counters between reports, the interval figures of every
\* report are the increase of the counters since the report before of the
\* same scope, and those of the first report the increase since the start.
C10_SnapshotOverwritten ==
  /\ IsCFReport =>
       /\ CFSnapshotIsReport
       /\ hist.only_increments => CFIntervalIsIncrease
  /\ IsDBReport =>
       /\ DBSnapshotIsReport
       /\ hist.only_increments => DBIntervalIsIncrease

\* What does hold: each report overwrites the snapshot of its scope with its
\* cumulative figures, and the DB-wide interval figures are the increase of
\* the counters since the DB-wide report before.
SnapshotOverwritten ==
  /\ IsCFReport => CFSnapshotIsReport
  /\ IsDBReport => DBSnapshotIsReport /\ DBIntervalIsIncrease

(***************************************************************************)
(* What a query writes.                                                    *)
(***************************************************************************)
QueryOps ==
  {"GetPropertyType", "GetIntProperty", "GetIntPropertyOutOfMutex",
   "GetStringProperty"}

\* the step is a call of GetStringProperty for the kind, which returned
StringStepOf(kinds) ==
  /\ out'.op = "GetStringProperty"
  /\ out'.status = "returned"
  /\ out'.property_type \in kinds

\* the step is a query that is no report: a call of GetPropertyType, of
\* GetIntProperty, of GetIntPropertyOutOfMutex, or of GetStringProperty for
\* a kind other than kStats, kCFStats and kDBStats
NoReportStep ==
  \/ out'.op \in QueryOps \ {"GetStringProperty"}
  \/ out'.op = "GetStringProperty" /\ ~IsReport(out'.property_type)

\* what a query of any path does to the counters and to the two snapshots
FrameOfQuery ==
  out'.op \in QueryOps =>
    /\ UNCHANGED <<comp_stats_, cf_stats_value_, cf_stats_count_,
                   stall_leveln_, db_stats_>>
    /\ NoReportStep => UNCHANGED <<cf_stats_snapshot_, db_stats_snapshot_>>
    /\ StringStepOf({"kCFStats"}) =>
         /\ cf_stats_snapshot_' = DumpCFStats(cf_stats_snapshot_).snapshot
         /\ UNCHANGED db_stats_snapshot_
    /\ StringStepOf({"kDBStats"}) =>
         /\ db_stats_snapshot_' = DumpDBStats(db_stats_snapshot_).snapshot
         /\ UNCHANGED cf_stats_snapshot_
    /\ StringStepOf({"kStats"}) =>
         /\ cf_stats_snapshot_' = DumpCFStats(cf_stats_snapshot_).snapshot
         /\ db_stats_snapshot_' = DumpDBStats(db_stats_snapshot_).snapshot
         /\ out'.result.value =
              Append(Append(out'.value_before,
                            DumpCFStats(cf_stats_snapshot_).text),
                     DumpDBStats(db_stats_snapshot_).text)

\* C11: the snapshots are written only by the string reports: a cfstats
\* query changes the column-family snapshot alone, a dbstats query the
\* DB-wide snapshot alone, a stats query both, as a cfstats followed by a
\* dbstats; GetPropertyType, GetIntProperty, GetIntPropertyOutOfMutex and
\* the other string queries leave both snapshots as they were; and no query
\* changes the compaction stats, the stall counters or the DB-wide counters.
C11_SnapshotsFrame == [][FrameOfQuery]_vars

\* a cfstats query has changed the column-family snapshot and has left the
\* DB-wide snapshot as it was, where a dbstats query would have changed it
C11_Witness ==
  /\ IsStringCall
  /\ out.property_type = "kCFStats"
  /\ cf_stats_snapshot_ # out.before.cf_stats_snapshot_
  /\ db_stats_snapshot_ = out.before.db_stats_snapshot_
  /\ DumpDBStats(db_stats_snapshot_).snapshot # db_stats_snapshot_

(***************************************************************************)
(* The catalog's flags and the three paths.                                *)
(***************************************************************************)
\* what each path returns for the kind, whatever the column family and the
\* DB hold and whatever *value holds at the call
StringPathReturns(ok, property_type, property) ==
  \A value \in ValuesBefore :
    \A r \in GetStringProperty(property_type, property, value) :
      r.status = "returned" /\ r.ok = ok

IntPathReturns(ok, property_type) ==
  \A db \in DBReadings, value \in ValuesAtCall :
    GetIntProperty(property_type, value, db).ok = ok

IsolatedPathReturns(ok, property_type) ==
  \A version \in Versions, value \in ValuesAtCall :
    GetIntPropertyOutOfMutex(property_type, version, value).ok = ok

\* the path the flags select: "isolated", "int" or "string"
SelectedPath(flags) ==
  IF flags.need_out_of_mutex THEN "isolated"
  ELSE IF flags.is_int_property THEN "int" ELSE "string"

\* the name resolved is a name of the catalog, with a level below
\* number_levels_ where it names one
ResolvedKnownName ==
  /\ out.op = "GetPropertyType"
  /\ IsKnownName(out.property)
  /\ out.result.kind = "kNumFilesAtLevel" =>
       \E level \in Levels : NamesLevel(LevelArgument, level)

\* C12: for every known property name (with a valid level argument where
\* one is needed) exactly one of GetStringProperty, GetIntProperty and
\* GetIntPropertyOutOfMutex succeeds for the kind GetPropertyType resolves
\* it to, and it is the one the flags select: the string path with
\* is_int_property false, the in-lock integer path with is_int_property
\* true and need_out_of_mutex false, the isolated path with
\* need_out_of_mutex true; for kUnknown all three paths fail.
C12_FlagsSelectThePath ==
  /\ ResolvedKnownName =>
       LET kind == out.result.kind
           path == SelectedPath(out.result)
       IN  /\ kind # "kUnknown"
           /\ StringPathReturns(path = "string", kind, out.property)
           /\ IntPathReturns(path = "int", kind)
           /\ IsolatedPathReturns(path = "isolated", kind)
  /\ (out.op = "GetPropertyType" /\ out.result.kind = "kUnknown") =>
       /\ StringPathReturns(FALSE, "kUnknown", out.property)
       /\ IntPathReturns(FALSE, "kUnknown")
       /\ IsolatedPathReturns(FALSE, "kUnknown")

\* the name of the table readers' memory was resolved: the flags select the
\* isolated path, which succeeds
C12_Witness ==
  /\ ResolvedKnownName
  /\ out.property = "rocksdb.estimate-table-readers-mem"
  /\ SelectedPath(out.result) = "isolated"
  /\ IsolatedPathReturns(TRUE, out.result.kind)

====
